---- MODULE Spec2Model ----
(***************************************************************************)
(* Model of blogs/admin.py: the admin registry, the computed list columns  *)
(* and the two bulk actions of BlogAdmin (block_blog, validate_domains).   *)
(* The record store holds the User, Blog, UserSettings and Post tables.    *)
(* Markup is a sequence of tokens: template literals are tokens, data is   *)
(* one token per character, an escaped character is one entity token.      *)
(***************************************************************************)
EXTENDS Integers, Sequences, FiniteSets, TLC

VARIABLES User, Blog, UserSettings, Post, registry,
          pc, op, queryset, i, mem, log, results, User0, err, cell

vars == <<User, Blog, UserSettings, Post, registry,
          pc, op, queryset, i, mem, log, results, User0, err, cell>>

store == <<User, Blog, UserSettings, Post, registry>>
request == <<pc, op, queryset, i, mem, log, results, User0, err>>

\* ---------------------------------------------------------------- bounds
NumUsers == 2
NumBlogs == 3
NumPosts == 2
MaxSel == 3

UserIds == 1..NumUsers
BlogIds == 1..NumBlogs
PostIds == 1..NumPosts

\* ------------------------------------------------------------ data pools
None == <<"None">>

DomainPool == << None, <<>>, <<"a", ".", "i", "o">>, <<"a", "'", "&", "<">> >>
SubdomainPool == << <<"b", "o", "b">>, <<"a", "\"", ">">>, <<"z">> >>
UsernamePool == << <<"a", "n", "n">>, <<"<", "b", ">">> >>
TitlePool == << <<"h", "i">>, <<"a", "&", "b">> >>
EmailPool == {"ann@x.io", "bob@x.io"}

Pick(pool, n) == pool[((n - 1) % Len(pool)) + 1]
Range(s) == {s[k] : k \in 1..Len(s)}

Digits == <<"1", "2", "3", "4", "5", "6", "7", "8", "9">>
PkStr(n) == Digits[n]

\* sequences without repetition over S, of length 0..n: a queryset holds
\* each selected record once
Selections(S, n) ==
  UNION {{s \in [1..m -> S] : \A a, b \in 1..m : a # b => s[a] # s[b]} : m \in 0..n}

\* -------------------------------------------------------------- registry
Plain == [custom |-> FALSE, list_display |-> <<>>, ordering |-> <<>>]

UserAdmin ==
  [custom |-> TRUE,
   list_display |-> <<"email", "is_active", "is_staff", "date_joined">>,
   ordering |-> <<"-date_joined">>]

UserSettingsAdmin ==
  [custom |-> TRUE,
   list_display |-> <<"email", "date_joined", "blogs", "display_is_active",
                      "upgraded", "upgraded_date", "order_id">>,
   ordering |-> <<>>]

\* variant: the Blog descriptor declares no ordering
BlogAdmin_unordered ==
  [custom |-> TRUE,
   list_display |-> <<"title", "reviewed", "upgraded", "display_is_active",
                      "subdomain_url", "domain_url", "post_count", "user_link",
                      "user_email", "created_date">>,
   ordering |-> <<>>]

BlogAdmin ==
  [custom |-> TRUE,
   list_display |-> <<"title", "reviewed", "upgraded", "display_is_active",
                      "subdomain_url", "domain_url", "post_count", "user_link",
                      "user_email", "created_date">>,
   ordering |-> <<"-created_date">>]

PostAdmin ==
  [custom |-> TRUE,
   list_display |-> <<"title", "blog", "upvotes", "published_date">>,
   ordering |-> <<"-published_date">>]

HitAdmin ==
  [custom |-> TRUE,
   list_display |-> <<"created_date", "post_link", "hash_id">>,
   ordering |-> <<"-created_date">>]

SubscriberAdmin ==
  [custom |-> TRUE,
   list_display |-> <<"subscribed_date", "blog", "email_address">>,
   ordering |-> <<>>]

Entities == {"User", "UserSettings", "Blog", "Post", "Upvote", "Stylesheet",
             "RssSubscriber", "Hit", "Subscriber", "PersistentStore"}

\* admin.site after the module is imported
site ==
  [e \in Entities |->
     CASE e = "User" -> UserAdmin
       [] e = "UserSettings" -> UserSettingsAdmin
       [] e = "Blog" -> BlogAdmin
       [] e = "Post" -> PostAdmin
       [] e = "Hit" -> HitAdmin
       [] e = "Subscriber" -> SubscriberAdmin
       [] OTHER -> Plain]

\* ----------------------------------------------------------- record store
NoUser == [id |-> 0, username |-> <<>>, email |-> "", is_active |-> FALSE, is_staff |-> FALSE]
NoCell == [column |-> "", obj |-> 0, html |-> <<>>]

IdleRequest ==
  /\ pc = "idle" /\ op = "" /\ queryset = <<>> /\ i = 0 /\ mem = NoUser
  /\ log = <<>> /\ results = <<>> /\ err = ""

\* the store any request starts from: owners and activity are drawn, the
\* other columns are fixed per primary key
Init ==
  /\ \E act \in [UserIds -> BOOLEAN] :
       User = [u \in UserIds |->
                 [id |-> u, username |-> Pick(UsernamePool, u),
                  email |-> "ann@x.io", is_active |-> act[u], is_staff |-> FALSE]]
  /\ \E own \in [BlogIds -> UserIds] :
       Blog = [b \in BlogIds |->
                 [user |-> own[b], subdomain |-> Pick(SubdomainPool, b),
                  domain |-> Pick(DomainPool, b)]]
  /\ UserSettings = [s \in UserIds |-> [user |-> NumUsers + 1 - s]]
  /\ Post = [p \in PostIds |-> [title |-> Pick(TitlePool, p)]]
  /\ registry = site
  /\ IdleRequest
  /\ User0 = User
  /\ cell = NoCell

\* ------------------------------------------------------------ block_blog
\* variant: the flag is inverted instead of cleared
Deactivate_flip(u) == [u EXCEPT !.is_active = ~u.is_active]

\* blog.user.is_active = False, on the instance loaded for this blog
Deactivate(u) == [u EXCEPT !.is_active = FALSE]

\* variant: the flag is written to every row of the table
save_all(tbl, inst) == [u \in DOMAIN tbl |-> [tbl[u] EXCEPT !.is_active = inst.is_active]]

\* Model.save() without update_fields: the row is rewritten from the instance
save(tbl, inst) == [tbl EXCEPT ![inst.id] = inst]

Blocked(b, u) == [text |-> "Blocked", blog |-> b, user |-> u]

block_blog ==
  /\ pc = "idle"
  /\ \E qs \in Selections(BlogIds, MaxSel) : queryset' = qs
  /\ op' = "block_blog" /\ pc' = "block_load" /\ i' = 1
  /\ User0' = User
  /\ UNCHANGED <<store, mem, log, results, err, cell>>

\* line 133: first access to blog.user reads the row, then the flag is set
block_blog_load ==
  /\ pc = "block_load" /\ i <= Len(queryset)
  /\ mem' = Deactivate(User[Blog[queryset[i]].user])
  /\ pc' = "block_save"
  /\ UNCHANGED <<store, op, queryset, i, log, results, User0, err, cell>>

\* variant: the loop runs in one transaction, a failing save undoes the batch
block_blog_save_atomic ==
  /\ pc = "block_save"
  /\ \/ /\ User' = save(User, mem)
        /\ log' = Append(log, Blocked(queryset[i], mem.id))
        /\ i' = i + 1 /\ pc' = "block_load" /\ mem' = NoUser
        /\ UNCHANGED <<Blog, UserSettings, Post, registry, op, queryset, results, User0, err, cell>>
     \/ /\ pc' = "raised" /\ err' = "DatabaseError"
        /\ User' = User0
        /\ UNCHANGED <<Blog, UserSettings, Post, registry, op, queryset, i, mem, log, results, User0, cell>>

\* lines 134-135: save, then the status line; a failing save propagates
block_blog_save ==
  /\ pc = "block_save"
  /\ \/ /\ User' = save(User, mem)
        /\ log' = Append(log, Blocked(queryset[i], mem.id))
        /\ i' = i + 1 /\ pc' = "block_load" /\ mem' = NoUser
        /\ UNCHANGED <<Blog, UserSettings, Post, registry, op, queryset, results, User0, err, cell>>
     \/ /\ pc' = "raised" /\ err' = "DatabaseError"
        /\ UNCHANGED <<store, op, queryset, i, mem, log, results, User0, cell>>

block_blog_return ==
  /\ pc = "block_load" /\ i > Len(queryset)
  /\ pc' = "done"
  /\ UNCHANGED <<store, op, queryset, i, mem, log, results, User0, err, cell>>

\* ------------------------------------------------------ validate_domains
CheckerOutcomes == {"True", "False", "TooManyRedirects", "ConnectionError"}

Checking(d) == [text |-> "Checking", domain |-> d]
Line(t) == [text |-> t]

\* variant: no except clause, TooManyRedirects propagates
Outcome_no_except(r) ==
  CASE r = "True" -> [raised |-> FALSE, out |-> <<Line("good")>>]
    [] r = "False" -> [raised |-> FALSE, out |-> <<Line("borked!")>>]
    [] OTHER -> [raised |-> TRUE, out |-> <<>>]

\* variant: a bare except, every failure is logged as borked
Outcome_bare_except(r) ==
  CASE r = "True" -> [raised |-> FALSE, out |-> <<Line("good")>>]
    [] OTHER -> [raised |-> FALSE, out |-> <<Line("borked!")>>]

\* lines 142-148 for one checker outcome: the lines printed, or the failure
Outcome(r) ==
  CASE r = "True" -> [raised |-> FALSE, out |-> <<Line("good")>>]
    [] r = "False" -> [raised |-> FALSE, out |-> <<Line("borked!")>>]
    [] r = "TooManyRedirects" -> [raised |-> FALSE, out |-> <<Line("borked!")>>]
    [] OTHER -> [raised |-> TRUE, out |-> <<>>]

validate_domains ==
  /\ pc = "idle"
  /\ \E qs \in Selections(BlogIds, MaxSel) : queryset' = qs
  /\ op' = "validate_domains" /\ pc' = "validate" /\ i' = 1
  /\ User0' = User
  /\ UNCHANGED <<store, mem, log, results, err, cell>>

\* one iteration of the loop, lines 140-148
validate_domains_check ==
  /\ pc = "validate" /\ i <= Len(queryset)
  /\ \E r \in CheckerOutcomes :
       /\ results' = Append(results, r)
       /\ log' = Append(log, Checking(Blog[queryset[i]].domain)) \o Outcome(r).out
       /\ IF Outcome(r).raised
            THEN pc' = "raised" /\ err' = r /\ i' = i
            ELSE pc' = "validate" /\ err' = err /\ i' = i + 1
  /\ UNCHANGED <<store, op, queryset, mem, User0, cell>>

validate_domains_return ==
  /\ pc = "validate" /\ i > Len(queryset)
  /\ pc' = "done"
  /\ UNCHANGED <<store, op, queryset, i, mem, log, results, User0, err, cell>>

\* the request ends: its locals and its output are gone, the store stays
response ==
  /\ pc \in {"done", "raised"}
  /\ pc' = "idle" /\ op' = "" /\ queryset' = <<>> /\ i' = 0 /\ mem' = NoUser
  /\ log' = <<>> /\ results' = <<>> /\ err' = ""
  /\ User0' = User
  /\ UNCHANGED <<store, cell>>

Next ==
  \/ block_blog \/ block_blog_load \/ block_blog_save \/ block_blog_return
  \/ validate_domains \/ validate_domains_check \/ validate_domains_return
  \/ response

Spec == Init /\ [][Next]_vars

\* ------------------------------------------------------ computed columns
\* django.utils.html.escape, one character at a time
EscapeChar(c) ==
  CASE c = "&" -> "&amp;"
    [] c = "<" -> "&lt;"
    [] c = ">" -> "&gt;"
    [] c = "\"" -> "&quot;"
    [] c = "'" -> "&#x27;"
    [] OTHER -> c

escape(s) == [k \in 1..Len(s) |-> EscapeChar(s[k])]

\* Python truth value of an optional string column
Falsy(d) == d = None \/ d = <<>>

\* blogs.helpers.root: the host a subdomain is served from
root(subdomain) == subdomain \o <<".", "host">>

\* Blog.dynamic_useful_domain: the custom domain when set, else the subdomain host
dynamic_useful_domain(blog) ==
  IF Falsy(blog.domain) THEN <<"http://">> \o root(blog.subdomain)
                        ELSE <<"http://">> \o blog.domain

\* reverse('admin:blogs_<model>_change', args=[pk])
reverse(model, pk) == <<"/mothership/blogs/", model, "/", PkStr(pk), "/change/">>

\* variant: only None counts as no custom domain
domain_url_is_none(obj) ==
  IF obj.domain = None THEN None
  ELSE <<"<a", " href=", "'", "http://">> \o escape(obj.domain)
         \o <<"'", " target=", "'", "_blank", "'", ">">>
         \o escape(obj.domain) \o <<"</a>">>

domain_url(obj) ==
  IF Falsy(obj.domain) THEN None
  ELSE <<"<a", " href=", "'", "http://">> \o escape(obj.domain)
         \o <<"'", " target=", "'", "_blank", "'", ">">>
         \o escape(obj.domain) \o <<"</a>">>

\* variant: the link has no target attribute
subdomain_url_same_window(obj) ==
  <<"<a", " href=", "'", "http://">> \o escape(root(obj.subdomain))
    \o <<"'", ">">> \o escape(root(obj.subdomain)) \o <<"</a>">>

subdomain_url(obj) ==
  <<"<a", " href=", "'", "http://">> \o escape(root(obj.subdomain))
    \o <<"'", " target=", "'", "_blank", "'", ">">>
    \o escape(root(obj.subdomain)) \o <<"</a>">>

\* obj.user.settings.id: the reverse side of the one-to-one
settings_id(u) == CHOOSE s \in DOMAIN UserSettings : UserSettings[s].user = u

user_link(obj) ==
  <<"<a", " href=", "\"">> \o escape(reverse("usersettings", settings_id(obj.user)))
    \o <<"\"", ">">> \o escape(User[obj.user].username) \o <<"</a>">>

post_link(obj) ==
  <<"<a", " href=", "\"", "/mothership/blogs/post/">> \o escape(<<PkStr(obj.post)>>)
    \o <<"/change/", "\"", ">">> \o escape(Post[obj.post].title) \o <<"</a>">>

\* one item of the format_html_join of UserSettingsAdmin.blogs
blog_entry(b) ==
  <<"<a", " href=", "\"">> \o escape(dynamic_useful_domain(Blog[b]))
    \o <<"\"", " target=", "\"", "_blank", "\"", ">">>
    \o escape(Blog[b].subdomain) \o <<"</a>">>
    \o <<" ", "<a", " href=", "\"">> \o escape(reverse("blog", b))
    \o <<"\"", " target=", "\"", "_blank", "\"", ">", "[edit]", "</a>">>

RECURSIVE format_html_join(_, _)
format_html_join(sep, items) ==
  IF items = <<>> THEN <<>>
  ELSE IF Len(items) = 1 THEN blog_entry(items[1])
  ELSE blog_entry(items[1]) \o sep \o format_html_join(sep, Tail(items))

\* variant: the empty join is returned as it is
blogs_no_default(obj, all) == format_html_join(<<", ">>, all)

\* UserSettingsAdmin.blogs; all is obj.user.blogs.all() in the order the
\* store returned it
blogs(obj, all) ==
  LET blogs_links == format_html_join(<<", ">>, all)
  IN IF blogs_links = <<>> THEN <<"No blogs">> ELSE blogs_links

\* the orders in which the store may return the blogs of user u
owned(u) == {b \in BlogIds : Blog[b].user = u}
blogs_all(u) == {s \in Selections(owned(u), Cardinality(owned(u))) : Len(s) = Cardinality(owned(u))}

Shown(column, obj, html) == [column |-> column, obj |-> obj, html |-> html]

render_domain_url ==
  /\ \E b \in BlogIds : cell' = Shown("domain_url", b, domain_url(Blog[b]))
  /\ UNCHANGED <<store, request>>

render_subdomain_url ==
  /\ \E b \in BlogIds : cell' = Shown("subdomain_url", b, subdomain_url(Blog[b]))
  /\ UNCHANGED <<store, request>>

render_user_link ==
  /\ \E b \in BlogIds : cell' = Shown("user_link", b, user_link(Blog[b]))
  /\ UNCHANGED <<store, request>>

render_blogs ==
  /\ \E s \in DOMAIN UserSettings : \E all \in blogs_all(UserSettings[s].user) :
       cell' = Shown("blogs", s, blogs(UserSettings[s], all))
  /\ UNCHANGED <<store, request>>

render_post_link ==
  /\ \E p \in PostIds : cell' = Shown("post_link", p, post_link([post |-> p]))
  /\ UNCHANGED <<store, request>>

\* the store a list view is rendered from: owners and custom domains are
\* drawn
InitRender ==
  /\ User = [u \in UserIds |->
               [id |-> u, username |-> Pick(UsernamePool, u),
                email |-> "ann@x.io", is_active |-> TRUE, is_staff |-> FALSE]]
  /\ \E own \in [BlogIds -> UserIds] : \E dom \in [BlogIds -> Range(DomainPool)] :
       Blog = [b \in BlogIds |->
                 [user |-> own[b], subdomain |-> Pick(SubdomainPool, b), domain |-> dom[b]]]
  /\ UserSettings = [s \in UserIds |-> [user |-> NumUsers + 1 - s]]
  /\ Post = [p \in PostIds |-> [title |-> Pick(TitlePool, p)]]
  /\ registry = site
  /\ IdleRequest
  /\ User0 = User
  /\ cell = NoCell

NextRender ==
  \/ render_domain_url \/ render_subdomain_url \/ render_user_link
  \/ render_blogs \/ render_post_link

SpecRender == InitRender /\ [][NextRender]_vars

\* ------------------------------------------------- a second operator
\* another operator saves the change form of a User (UserAdmin) while a
\* bulk action runs
change_user ==
  /\ \E u \in UserIds : \E e \in EmailPool :
       e # User[u].email /\ User' = [User EXCEPT ![u].email = e]
  /\ UNCHANGED <<Blog, UserSettings, Post, registry, request, cell>>

NextConc ==
  \/ block_blog \/ block_blog_load \/ block_blog_save \/ block_blog_return
  \/ response \/ change_user

SpecConc == Init /\ [][NextConc]_vars

\* ============================================================ properties
\* reading markup back: the anchors of a cell, as a browser would see them
UnescapeChar(c) ==
  CASE c = "&amp;" -> "&"
    [] c = "&lt;" -> "<"
    [] c = "&gt;" -> ">"
    [] c = "&quot;" -> "\""
    [] c = "&#x27;" -> "'"
    [] OTHER -> c

Unescape(s) == [k \in 1..Len(s) |-> UnescapeChar(s[k])]

FindTok(h, j, t) ==
  LET S == {k \in j..Len(h) : h[k] = t}
  IN IF S = {} THEN Len(h) + 1 ELSE CHOOSE k \in S : \A m \in S : k <= m

RECURSIVE ParseAttrs(_, _, _)
ParseAttrs(h, j, acc) ==
  IF j > Len(h) THEN [attrs |-> acc, next |-> j]
  ELSE IF h[j] = ">" THEN [attrs |-> acc, next |-> j + 1]
  ELSE IF h[j] \in {" href=", " target="} /\ j + 1 <= Len(h)
    THEN LET e == FindTok(h, j + 2, h[j + 1])
             v == SubSeq(h, j + 2, e - 1)
         IN ParseAttrs(h, e + 1,
                       IF h[j] = " href=" THEN [acc EXCEPT !.href = v]
                                          ELSE [acc EXCEPT !.target = v])
  ELSE ParseAttrs(h, j + 1, acc)

RECURSIVE Anchors(_, _)
Anchors(h, j) ==
  IF j > Len(h) THEN <<>>
  ELSE IF h[j] = "<a"
    THEN LET a == ParseAttrs(h, j + 1, [href |-> <<>>, target |-> <<>>])
             e == FindTok(h, a.next, "</a>")
         IN <<[href |-> Unescape(a.attrs.href), target |-> a.attrs.target,
               label |-> Unescape(SubSeq(h, a.next, e - 1))]>> \o Anchors(h, e + 1)
  ELSE Anchors(h, j + 1)

Owner(k) == Blog[queryset[k]].user
Owners(ks) == {Owner(k) : k \in ks}
Sel == 1..Len(queryset)
Returned == {"True", "False", "TooManyRedirects"}

\* C1: when block_blog has completed, the owner of every selected Blog is
\* inactive and every User owning none of them is as it was before the action
C1_BlockBlogEffect ==
  (pc = "done" /\ op = "block_blog") =>
     /\ \A k \in Sel : ~User[Owner(k)].is_active
     /\ \A u \in UserIds : u \notin Owners(Sel) => User[u] = User0[u]

C1_Witness ==
  /\ pc = "done" /\ op = "block_blog"
  /\ \E k \in Sel : User0[Owner(k)].is_active
  /\ \E u \in UserIds : u \notin Owners(Sel) /\ User[u].is_active

\* C2: every record whose checker call returned or raised excessive
\* redirects has exactly one outcome line after its Checking line, good for
\* true and borked for false and for excessive redirects; excessive
\* redirects never ends the batch, a completed batch checked every record
C2_ValidateOutcome ==
  (op = "validate_domains") =>
     /\ \A k \in 1..Len(results) : results[k] \in Returned =>
          /\ 2 * k <= Len(log)
          /\ log[2 * k - 1] = Checking(Blog[queryset[k]].domain)
          /\ log[2 * k] = Line(IF results[k] = "True" THEN "good" ELSE "borked!")
     /\ Len(log) = Len(results) + Cardinality({k \in 1..Len(results) : results[k] \in Returned})
     /\ pc = "raised" => results[Len(results)] # "TooManyRedirects"
     /\ pc = "done" => Len(results) = Len(queryset)

C2_Witness ==
  /\ pc = "done" /\ op = "validate_domains"
  /\ results = <<"TooManyRedirects", "True", "False">>

\* C3: a checker failure other than excessive redirects on the k-th record
\* propagates: the batch is over, the checker was called k times, records
\* before k have their outcome line and no outcome line exists from k on
C3_ValidateAborts ==
  (op = "validate_domains") =>
     \A k \in 1..Len(results) : results[k] \notin Returned =>
        /\ pc = "raised" /\ err = results[k]
        /\ k = i /\ Len(results) = k
        /\ Len(log) = 2 * k - 1
        /\ \A j \in 1..(k - 1) : log[2 * j].text \in {"good", "borked!"}
        /\ log[2 * k - 1] = Checking(Blog[queryset[k]].domain)

C3_Witness ==
  /\ pc = "raised" /\ op = "validate_domains"
  /\ Len(queryset) = 3 /\ Len(results) = 2

\* C4: when the save of the k-th record fails, block_blog raises, the owners
\* of records 1..k-1 stay persisted inactive and the owners of records k+1..
\* that own no earlier record are unchanged
C4_BlockBlogNoRollback ==
  (pc = "raised" /\ op = "block_blog") =>
     /\ err = "DatabaseError"
     /\ \A k \in 1..(i - 1) : ~User[Owner(k)].is_active
     /\ Len(log) = i - 1
     /\ \A k \in (i + 1)..Len(queryset) :
          Owner(k) \notin Owners(1..(i - 1)) => User[Owner(k)] = User0[Owner(k)]

C4_Witness ==
  /\ pc = "raised" /\ op = "block_blog"
  /\ i = 2 /\ Len(queryset) = 3
  /\ User0[Owner(1)].is_active
  /\ Owner(3) # Owner(1) /\ User[Owner(3)].is_active

\* C5: block_blog on owners that are already inactive changes nothing in the
\* store and still logs one status line per selected record; this holds for
\* a whole selection and for each save of an already inactive owner
C5_BlockBlogIdempotent ==
  /\ []((pc = "done" /\ op = "block_blog" /\ \A k \in Sel : ~User0[Owner(k)].is_active) =>
          /\ User = User0
          /\ log = [k \in Sel |-> Blocked(queryset[k], Owner(k))])
  /\ [][(pc = "block_save" /\ pc' = "block_load" /\ ~User[mem.id].is_active) =>
          /\ User' = User
          /\ log' = Append(log, Blocked(queryset[i], Owner(i)))]_vars

C5_Witness ==
  /\ pc = "done" /\ op = "block_blog"
  /\ Len(queryset) >= 2 /\ Owner(1) = Owner(2)
  /\ \A k \in Sel : ~User0[Owner(k)].is_active

\* C6: the blogs column of a UserSettings row is the literal No blogs exactly
\* when its user owns no blog; otherwise it holds one blog link per owned
\* blog, each followed by its own [edit] link to that blog's change page
C6_BlogsColumn ==
  (cell.column = "blogs") =>
     LET mine == owned(UserSettings[cell.obj].user)
         N == Cardinality(mine)
         A == Anchors(cell.html, 1)
     IN /\ (cell.html = <<"No blogs">>) <=> (N = 0)
        /\ N >= 1 =>
             /\ Len(A) = 2 * N
             /\ \A k \in 1..N : \E b \in mine :
                  /\ A[2 * k - 1].label = Blog[b].subdomain
                  /\ A[2 * k].label = <<"[edit]">>
                  /\ A[2 * k].href = reverse("blog", b)
             /\ \A b \in mine : \E k \in 1..N : A[2 * k].href = reverse("blog", b)

C6_Witness ==
  /\ cell.column = "blogs"
  /\ Cardinality(owned(UserSettings[cell.obj].user)) >= 2

\* C7 as stated: every link of every computed column carries the new-window
\* target
C7_AllLinksNewWindow ==
  (cell.column # "") =>
     \A k \in 1..Len(Anchors(cell.html, 1)) : Anchors(cell.html, 1)[k].target = <<"_blank">>

\* C7 amended: the links of subdomain_url, domain_url and blogs carry the
\* new-window target; the link of user_link and of post_link carries no target
C7_LinkTargets ==
  LET A == Anchors(cell.html, 1)
  IN /\ cell.column \in {"subdomain_url", "domain_url", "blogs"} =>
          \A k \in 1..Len(A) : A[k].target = <<"_blank">>
     /\ cell.column \in {"user_link", "post_link"} =>
          Len(A) = 1 /\ A[1].target = <<>>

C7_Witness ==
  /\ cell.column = "subdomain_url"
  /\ Len(Anchors(cell.html, 1)) = 1
  /\ "\"" \in Range(Blog[cell.obj].subdomain)

\* the recency field the claim names for each customized entity
Recency ==
  [e \in {"User", "UserSettings", "Blog", "Post", "Hit", "Subscriber"} |->
     CASE e \in {"User", "UserSettings"} -> "-date_joined"
       [] e \in {"Blog", "Hit"} -> "-created_date"
       [] e = "Post" -> "-published_date"
       [] OTHER -> "-subscribed_date"]

Customized == {e \in Entities : registry[e].custom}

\* C8 as stated: every customized entity declares its recency field,
\* descending, as default ordering
C8_AllOrdered ==
  \A e \in Customized : registry[e].ordering = <<Recency[e]>>

\* C8 amended: User, Blog, Post and Hit declare their recency field,
\* descending, as default ordering; UserSettings and Subscriber declare none
C8_DeclaredOrdering ==
  /\ Customized = DOMAIN Recency
  /\ \A e \in {"User", "Blog", "Post", "Hit"} : registry[e].ordering = <<Recency[e]>>
  /\ \A e \in {"UserSettings", "Subscriber"} : registry[e].ordering = <<>>

C8_Witness ==
  /\ registry["Subscriber"].custom /\ registry["UserSettings"].custom
  /\ registry["Blog"].ordering # <<>>

\* C9: domain_url is absent for a Blog whose domain is unset or empty, and
\* otherwise is one link to http://<domain> labelled with the domain
C9_DomainUrl ==
  (cell.column = "domain_url") =>
     LET d == Blog[cell.obj].domain
         A == Anchors(cell.html, 1)
     IN IF d = None \/ Len(d) = 0
          THEN cell.html = None
          ELSE /\ Len(A) = 1
               /\ A[1].href = <<"http://">> \o d
               /\ A[1].label = d
               /\ cell.html[1] = "<a" /\ cell.html[Len(cell.html)] = "</a>"

C9_Witness ==
  /\ cell.column = "domain_url"
  /\ "'" \in Range(Blog[cell.obj].domain)
  /\ Len(Anchors(cell.html, 1)) = 1

\* C10: a save of block_blog changes no field of any User other than
\* is_active, whatever another operator committed since the row was read
C10_OnlyActiveFlagWritten ==
  [][(pc = "block_save" /\ pc' = "block_load") =>
        \A u \in UserIds :
          /\ User'[u].email = User[u].email
          /\ User'[u].is_staff = User[u].is_staff
          /\ User'[u].username = User[u].username]_vars

====
